---- MODULE Spec2Model ----
(***************************************************************************)
(* Model of mlrun/api/utils/clients/chief.py: the chief Client through     *)
(* which a worker forwards requests to the chief API.                      *)
(*                                                                         *)
(* Strings that are sliced or concatenated (urls, paths) are sequences of  *)
(* tokens: "/" is a token of its own, every other token stands for a       *)
(* non-empty run of characters without "/", except the scheme token        *)
(* ("http://", "https://") that opens a url.  Python dicts are sets of     *)
(* <<key, value>> pairs; an optional value is Nothing or Some(v).          *)
(***************************************************************************)
EXTENDS Integers, Sequences, FiniteSets, TLC

\* ------------------------------------------------------------------ bounds
NumCallers == 2      \* concurrent request-handling threads of the worker
MaxCalls == 2        \* forwards one caller makes one after the other

Callers == 1..NumCallers

\* --------------------------------------------------------------- optionals
Nothing == [some |-> FALSE]
Some(v) == [some |-> TRUE, val |-> v]

\* dict.get(key), "None" when the key is missing
DictGet(items, key) ==
    IF \E p \in items : p[1] = key
    THEN (CHOOSE p \in items : p[1] = key)[2]
    ELSE "None"

Keys(items) == {p[1] : p \in items}

\* ------------------------------------------------------------ configuration
\* mlrun.mlconf.api_base_version
api_base_version == <<"v1">>
\* mlrun.mlconf.httpdb.max_workers
max_workers == 64
\* urllib3.util.retry.Retry(total=3, backoff_factor=1)
RetryTotal == 3
BackoffFactor == 1
\* requests' own adapter, mounted by requests.Session() on both schemes
DefaultRetryTotal == 0
DefaultBackoffFactor == 0
DefaultPoolMaxsize == 10
\* kwargs["timeout"] = 20
DefaultTimeout == 20

\* what mlrun.mlconf.resolve_chief_api_url() can return; <<>> stands for a
\* configuration from which no url can be resolved (the resolver raises)
Unresolvable == <<>>
ChiefUrls ==
    { <<"http://", "chief:8080">>,  <<"http://", "chief:8080", "/">>,
      <<"https://", "chief:8080">>, <<"https://", "chief:8080", "/">> }

\* ------------------------------------------------------------- Client.__init__
HTTPAdapter(total, backoff_factor, pool_maxsize) ==
    [max_retries |-> [total |-> total, backoff_factor |-> backoff_factor],
     pool_maxsize |-> pool_maxsize]

\* requests.Session(): no session-level headers, params or cookies of a caller,
\* requests' default adapter on both schemes
Session ==
    [adapters |-> [prefix \in {"http://", "https://"} |->
                     HTTPAdapter(DefaultRetryTotal, DefaultBackoffFactor,
                                 DefaultPoolMaxsize)],
     headers |-> {}, params |-> {}, cookies |-> {}]

mount(session, prefix, adapter) ==
    [session EXCEPT !.adapters[prefix] = adapter]

\* session.get_adapter(url): the adapter mounted on the url's scheme
get_adapter(session, url) == session.adapters[url[1]]

endswith_slash(url) == Len(url) > 0 /\ url[Len(url)] = "/"

\* a mutant of Client.__init__ that keeps the url as configured
Client__init__NoStrip(resolved) ==
    IF resolved = Unresolvable
    THEN [raised |-> TRUE]
    ELSE [raised |-> FALSE,
          _session |-> mount(Session, "http://",
                             HTTPAdapter(RetryTotal, BackoffFactor, max_workers)),
          _api_url |-> resolved]

\* a mutant of Client.__init__ that swallows the resolver's failure
Client__init__Swallow(resolved) ==
    [raised |-> FALSE,
     _session |-> mount(Session, "http://",
                        HTTPAdapter(RetryTotal, BackoffFactor, max_workers)),
     _api_url |-> IF endswith_slash(resolved)
                  THEN SubSeq(resolved, 1, Len(resolved) - 1) ELSE resolved]

\* Client.__init__: `resolved` is what resolve_chief_api_url() yields
Client__init__(resolved) ==
    LET http_adapter == HTTPAdapter(RetryTotal, BackoffFactor, max_workers)
        _session == mount(Session, "http://", http_adapter)
    IN  IF resolved = Unresolvable
        THEN [raised |-> TRUE]
        ELSE [raised |-> FALSE,
              _session |-> _session,
              _api_url |-> IF endswith_slash(resolved)
                           THEN SubSeq(resolved, 1, Len(resolved) - 1)
                           ELSE resolved]

\* ------------------------------------------------- named forwarding operations
NamedOperations ==
    {"get_internal_background_task", "trigger_migrations", "create_schedule",
     "update_schedule", "delete_schedule", "delete_schedules", "invoke_schedule",
     "submit_job", "build_function", "delete_project"}

\* the operations whose signature has a body parameter
OperationsWithBody ==
    {"create_schedule", "update_schedule", "submit_job", "build_function"}

\* the method each named operation passes to _proxy_request_to_chief
OperationMethod(op) ==
    CASE op = "get_internal_background_task" -> "GET"
      [] op = "trigger_migrations" -> "POST"
      [] op = "create_schedule" -> "POST"
      [] op = "update_schedule" -> "PUT"
      [] op = "delete_schedule" -> "DELETE"
      [] op = "delete_schedules" -> "DELETE"
      [] op = "invoke_schedule" -> "POST"
      [] op = "submit_job" -> "POST"
      [] op = "build_function" -> "POST"
      [] op = "delete_project" -> "DELETE"

\* the path each named operation formats from its path variables
OperationPath(op, project, name) ==
    CASE op = "get_internal_background_task" -> <<"background-tasks", "/", name>>
      [] op = "trigger_migrations" -> <<"operations", "/", "migrations">>
      [] op = "create_schedule" -> <<"projects", "/", project, "/", "schedules">>
      [] op = "update_schedule" ->
            <<"projects", "/", project, "/", "schedules", "/", name>>
      [] op = "delete_schedule" ->
            <<"projects", "/", project, "/", "schedules", "/", name>>
      [] op = "delete_schedules" -> <<"projects", "/", project, "/", "schedules">>
      [] op = "invoke_schedule" ->
            <<"projects", "/", project, "/", "schedules", "/", name, "/", "invoke">>
      [] op = "submit_job" -> <<"submit_job">>
      [] op = "build_function" -> <<"build", "/", "function">>
      [] op = "delete_project" -> <<"projects", "/", name>>

\* -------------------------------------------------------- request translation
NoKwargs ==
    [data |-> Nothing, headers |-> Nothing, params |-> Nothing,
     cookies |-> Nothing, timeout |-> Nothing]

\* Python truth of a body argument: None and the empty dict are false
BodyTruthy(body) == body.some /\ body.val # {}

\* a mutant of _resolve_request_kwargs_from_request: data set outside the test
resolve_request_kwargs_DataAlways(request, body) ==
    IF request.some
    THEN [NoKwargs EXCEPT
            !.data = Some(IF BodyTruthy(body) THEN body.val ELSE {}),
            !.headers = Some(request.val.headers),
            !.params = Some(request.val.query_params),
            !.cookies = Some(request.val.cookies)]
    ELSE [NoKwargs EXCEPT
            !.data = Some(IF BodyTruthy(body) THEN body.val ELSE {})]

_resolve_request_kwargs_from_request(request, body) ==
    IF request.some
    THEN [NoKwargs EXCEPT
            !.data = Some(IF BodyTruthy(body) THEN body.val ELSE {}),
            !.headers = Some(request.val.headers),
            !.params = Some(request.val.query_params),
            !.cookies = Some(request.val.cookies)]
    ELSE NoKwargs

\* a setting of one request merged over the session's: the request's key wins
merge_setting(session_setting, request_setting) ==
    LET own == IF request_setting.some THEN request_setting.val ELSE {}
    IN  own \cup {p \in session_setting : p[1] \notin Keys(own)}

\* self._session.request(method, url, verify=False, **kwargs): the request the
\* transport puts on the wire, and the adapter that carries it
session_request(session, method, url, verify, kwargs) ==
    [method |-> method, url |-> url, verify |-> verify,
     timeout |-> kwargs.timeout,
     data |-> kwargs.data,
     headers |-> merge_setting(session.headers, kwargs.headers),
     params |-> merge_setting(session.params, kwargs.params),
     cookies |-> merge_setting(session.cookies, kwargs.cookies),
     adapter |-> get_adapter(session, url)]

\* ------------------------------------------------------- response translation
Lower(name) ==
    CASE name = "Content-Type" -> "content-type"
      [] name = "X" -> "x"
      [] OTHER -> name

\* fastapi.responses.Response(content, status_code, headers, media_type): the
\* supplied headers become the raw headers under lower-cased names, and the
\* media type fills the content-type header only when none was supplied
Response(content, status_code, headers, media_type) ==
    LET raw == {<<Lower(h[1]), h[2]>> : h \in headers}
        populate_content_type == "content-type" \notin Keys(raw)
    IN  [body |-> content,
         status_code |-> status_code,
         media_type |-> media_type,
         raw_headers |-> IF populate_content_type
                         THEN raw \cup {<<"content-type", media_type>>}
                         ELSE raw]

_convert_requests_response_to_fastapi_response(chief_response) ==
    Response(chief_response.content, chief_response.status_code,
             chief_response.headers, "application/json")

\* ------------------------------------------------------ the chief's responses
\* response.ok: requests raises for 400 <= status_code < 600
ok(response) == response.status_code < 400

\* the bodies a chief response can carry: none, text that is no JSON, a JSON
\* object without and with the error fields, a JSON list
EmptyContent == ""
TextContent == "Not Found"
ObjectContent == "{\"a\": 1}"
ErrorContent == "{\"error\": \"boom\", \"errorStackTrace\": \"trace\"}"
ListContent == "[1]"

\* response.json(): raises on a body that is no JSON, else the decoded value
json(response) ==
    CASE response.content = ObjectContent ->
            [raises |-> FALSE, isdict |-> TRUE, items |-> {<<"a", "1">>}]
      [] response.content = ErrorContent ->
            [raises |-> FALSE, isdict |-> TRUE,
             items |-> {<<"error", "boom">>, <<"errorStackTrace", "trace">>}]
      [] response.content = ListContent ->
            [raises |-> FALSE, isdict |-> FALSE, items |-> {}]
      [] OTHER -> [raises |-> TRUE, isdict |-> FALSE, items |-> {}]

\* the body of the try block of the failure path: response.json() and the two
\* data.get calls, which raise on a JSON value that is no dict
error_fields(response) ==
    LET data == json(response)
    IN  IF data.raises \/ ~data.isdict
        THEN [raises |-> TRUE, fields |-> {}]
        ELSE [raises |-> FALSE,
              fields |-> {<<"error", DictGet(data.items, "error")>>,
                          <<"error_stack_trace",
                            DictGet(data.items, "errorStackTrace")>>}]

\* the success path's decode: the JSON value, or the text when json() raises
decode_for_log(response) ==
    IF json(response).raises
    THEN [decoded_as |-> "text", value |-> response.content]
    ELSE [decoded_as |-> "json", value |-> response.content]

\* mlrun.errors.raise_for_status(response): the domain error raised for a
\* failed response
raise_for_status(response) ==
    [type |-> "MLRunHTTPStatusError", status_code |-> response.status_code]

NoError == [type |-> "none", status_code |-> 0]

\* a mutant of the response handling without the two try/except blocks
send_request_on_response_NoCatch(method, path, url, raise_on_failure, kwargs, response) ==
    IF ~ok(response)
    THEN LET decoded == IF response.content # EmptyContent
                        THEN error_fields(response)
                        ELSE [raises |-> FALSE, fields |-> {}]
         IN  IF decoded.raises
             THEN [raised |-> TRUE,
                   error |-> [type |-> "JSONDecodeError", status_code |-> 0],
                   response |-> response, log |-> <<>>]
             ELSE [raised |-> raise_on_failure,
                   error |-> IF raise_on_failure THEN raise_for_status(response)
                             ELSE NoError,
                   response |-> response,
                   log |-> <<[level |-> "warning",
                              message |-> "Request to chief failed",
                              method |-> method, path |-> path,
                              kwargs |-> kwargs, fields |-> decoded.fields]>>]
    ELSE IF json(response).raises
         THEN [raised |-> TRUE,
               error |-> [type |-> "JSONDecodeError", status_code |-> 0],
               response |-> response, log |-> <<>>]
         ELSE [raised |-> FALSE, error |-> NoError, response |-> response,
               log |-> <<[level |-> "debug",
                          message |-> "Request to chief succeeded",
                          method |-> method, url |-> url, kwargs |-> kwargs,
                          response |-> decode_for_log(response)]>>]

\* a mutant of the response handling that never raises for a failed response
send_request_on_response_NeverRaise(method, path, url, raise_on_failure, kwargs, response) ==
    IF ~ok(response)
    THEN LET decoded == IF response.content # EmptyContent
                        THEN error_fields(response)
                        ELSE [raises |-> TRUE, fields |-> {}]
         IN  [raised |-> FALSE, error |-> NoError, response |-> response,
              log |-> <<[level |-> "warning",
                         message |-> "Request to chief failed",
                         method |-> method, path |-> path, kwargs |-> kwargs,
                         fields |-> IF decoded.raises THEN {}
                                    ELSE decoded.fields]>>]
    ELSE [raised |-> FALSE, error |-> NoError, response |-> response,
          log |-> <<[level |-> "debug",
                     message |-> "Request to chief succeeded",
                     method |-> method, url |-> url, kwargs |-> kwargs,
                     response |-> decode_for_log(response)]>>]

\* _send_request_to_api from the moment self._session.request has returned
\* `response`: what it logs, and whether it returns the response or raises
send_request_on_response(method, path, url, raise_on_failure, kwargs, response) ==
    IF ~ok(response)
    THEN LET \* if response.content: try ... except Exception: pass else: update
             log_kwargs == IF response.content # EmptyContent
                              /\ ~error_fields(response).raises
                           THEN error_fields(response).fields
                           ELSE {}
         IN  [raised |-> raise_on_failure,
              error |-> IF raise_on_failure THEN raise_for_status(response)
                        ELSE NoError,
              response |-> response,
              log |-> <<[level |-> "warning",
                         message |-> "Request to chief failed",
                         method |-> method, path |-> path, kwargs |-> kwargs,
                         fields |-> log_kwargs]>>]
    ELSE \* data = response.json(), or response.text when that raises
         [raised |-> FALSE, error |-> NoError, response |-> response,
          log |-> <<[level |-> "debug",
                     message |-> "Request to chief succeeded",
                     method |-> method, url |-> url, kwargs |-> kwargs,
                     response |-> decode_for_log(response)]>>]

\* ----------------------------------------------------------------- the state
VARIABLES
    cfgUrl,       \* what resolve_chief_api_url() resolves to in this process
    lock,         \* the caller inside the singleton's guarded creation, or 0
    created,      \* every Client instance construction has completed for
    registered,   \* the instance the singleton holds (index of created), or 0
    initRuns,     \* how many times Client.__init__ was entered
    pc,           \* where each caller stands
    client,       \* the instance Client() gave the caller, or 0
    calls,        \* how many times the caller has called Client()
    call,         \* the arguments of the caller's forward
    wire,         \* the request the transport sends for it
    sends,        \* how many times self._session.request was called for it
    attempts,     \* how many connection attempts the transport made for it
    resp,         \* the chief's response to it
    outcome,      \* what the forward returned or raised
    log           \* what the forward logged

vars == <<cfgUrl, lock, created, registered, initRuns, pc, client, calls, call,
          wire, sends, attempts, resp, outcome, log>>

clientVars == <<cfgUrl, lock, created, registered, initRuns>>

NoCall ==
    [op |-> "", project |-> "", name |-> "", method |-> "", path |-> <<>>,
     request |-> Nothing, body |-> Nothing, raise_on_failure |-> FALSE,
     url |-> <<>>, kwargs |-> NoKwargs]

NoOutcome == [kind |-> "none"]

Init ==
    /\ cfgUrl \in ChiefUrls \cup {Unresolvable}
    /\ lock = 0
    /\ created = <<>>
    /\ registered = 0
    /\ initRuns = 0
    /\ pc = [c \in Callers |-> "idle"]
    /\ client = [c \in Callers |-> 0]
    /\ calls = [c \in Callers |-> 0]
    /\ call = [c \in Callers |-> NoCall]
    /\ wire = [c \in Callers |-> Nothing]
    /\ sends = [c \in Callers |-> 0]
    /\ attempts = [c \in Callers |-> 0]
    /\ resp = [c \in Callers |-> Nothing]
    /\ outcome = [c \in Callers |-> NoOutcome]
    /\ log = [c \in Callers |-> <<>>]

\* ------------------------------------------------------- the client singleton
\* Client(): the caller enters the singleton's guarded creation
SingletonEnter(c) ==
    /\ pc[c] = "idle"
    /\ calls[c] < MaxCalls
    /\ lock = 0
    /\ lock' = c
    /\ pc' = [pc EXCEPT ![c] = "in_singleton"]
    /\ calls' = [calls EXCEPT ![c] = @ + 1]
    /\ UNCHANGED <<cfgUrl, created, registered, initRuns, client, call, wire,
                   sends, attempts, resp, outcome, log>>

\* inside the guard: the registered instance, or a new one built by __init__
\* and registered once __init__ has returned; an exception of __init__ leaves
\* the guard with nothing registered
SingletonCall(c) ==
    /\ pc[c] = "in_singleton"
    /\ lock = c
    /\ lock' = 0
    /\ IF registered # 0
       THEN /\ client' = [client EXCEPT ![c] = registered]
            /\ pc' = [pc EXCEPT ![c] = "ready"]
            /\ UNCHANGED <<created, registered, initRuns, outcome>>
       ELSE LET self == Client__init__(cfgUrl)
            IN  /\ initRuns' = initRuns + 1
                /\ IF self.raised
                   THEN /\ pc' = [pc EXCEPT ![c] = "raised"]
                        /\ outcome' = [outcome EXCEPT ![c] =
                              [kind |-> "raised",
                               error |-> [type |-> "ResolveError",
                                          status_code |-> 0]]]
                        /\ UNCHANGED <<created, registered, client>>
                   ELSE /\ created' = Append(created, self)
                        /\ registered' = Len(created) + 1
                        /\ client' = [client EXCEPT ![c] = Len(created) + 1]
                        /\ pc' = [pc EXCEPT ![c] = "ready"]
                        /\ UNCHANGED outcome
    /\ UNCHANGED <<cfgUrl, calls, call, wire, sends, attempts, resp, log>>

\* ------------------------------------------------------------------ inputs
Projects == {"proj"}
Names == {"nightly"}

\* inbound requests of two different callers' clients
RequestA ==
    [headers |-> {<<"authorization", "token-a">>},
     query_params |-> {<<"force", "true">>},
     cookies |-> {<<"session", "sid-a">>}]
RequestB ==
    [headers |-> {<<"authorization", "token-b">>, <<"x-trace", "t-b">>},
     query_params |-> {},
     cookies |-> {<<"session", "sid-b">>}]
Requests == {Nothing, Some(RequestA), Some(RequestB)}

Bodies == {Nothing, Some({}), Some({<<"kind", "job">>})}

StatusCodes == {200, 204, 400, 404, 500}
Contents == {EmptyContent, TextContent, ObjectContent, ErrorContent, ListContent}
ResponseHeaders ==
    { {}, {<<"X", "y">>},
      {<<"Content-Type", "text/plain">>, <<"X", "y">>},
      {<<"Content-Type", "application/json">>} }

ChiefResponses ==
    [status_code : StatusCodes, content : Contents, headers : ResponseHeaders]

\* the narrower inputs of the concurrent specification
ConcOperations == {"trigger_migrations", "create_schedule"}
ConcBodies == {Some({<<"kind", "job">>})}
ConcResponses ==
    { [status_code |-> 200, content |-> ObjectContent, headers |-> {<<"X", "y">>}],
      [status_code |-> 500, content |-> ErrorContent, headers |-> {}] }
ConcUrls == { <<"http://", "chief:8080", "/">>, Unresolvable }

\* -------------------------------------------------------------- the forwards
\* a mutant of _proxy_request_to_chief that keeps the caller's headers on the
\* shared session
proxy_request_to_chief_SessionHeaders(c, op, project, name, method, path, request, body, raise_on_failure) ==
    LET self == created[client[c]]
        request_kwargs == _resolve_request_kwargs_from_request(request, body)
        url == self._api_url \o <<"/", "api", "/">> \o api_base_version
                   \o <<"/">> \o path
        kwargs == [request_kwargs EXCEPT !.timeout = Some(DefaultTimeout)]
        session == [self._session EXCEPT
                      !.headers = merge_setting(@, kwargs.headers)]
    IN  /\ pc[c] = "ready"
        /\ call' = [call EXCEPT ![c] =
              [op |-> op, project |-> project, name |-> name,
               method |-> method, path |-> path, request |-> request,
               body |-> body, raise_on_failure |-> raise_on_failure,
               url |-> url, kwargs |-> kwargs]]
        /\ created' = [created EXCEPT ![client[c]]._session = session]
        /\ log' = [log EXCEPT ![c] =
              <<[level |-> "debug", message |-> "Sending request to chief",
                 method |-> method, url |-> url, kwargs |-> kwargs]>>]
        /\ wire' = [wire EXCEPT ![c] =
              Some(session_request(session, method, url, FALSE, kwargs))]
        /\ sends' = [sends EXCEPT ![c] = @ + 1]
        /\ pc' = [pc EXCEPT ![c] = "in_transport"]
        /\ UNCHANGED <<cfgUrl, lock, registered, initRuns, client, calls,
                       attempts, resp, outcome>>

\* _proxy_request_to_chief up to the call of self._session.request inside
\* _send_request_to_api: the kwargs, the url, the default timeout, the debug
\* log, and the request handed to the transport
_proxy_request_to_chief(c, op, project, name, method, path, request, body, raise_on_failure) ==
    LET self == created[client[c]]
        request_kwargs == _resolve_request_kwargs_from_request(request, body)
        url == self._api_url \o <<"/", "api", "/">> \o api_base_version
                   \o <<"/">> \o path
        kwargs == IF ~request_kwargs.timeout.some
                  THEN [request_kwargs EXCEPT !.timeout = Some(DefaultTimeout)]
                  ELSE request_kwargs
    IN  /\ pc[c] = "ready"
        /\ call' = [call EXCEPT ![c] =
              [op |-> op, project |-> project, name |-> name,
               method |-> method, path |-> path, request |-> request,
               body |-> body, raise_on_failure |-> raise_on_failure,
               url |-> url, kwargs |-> kwargs]]
        /\ log' = [log EXCEPT ![c] =
              <<[level |-> "debug", message |-> "Sending request to chief",
                 method |-> method, url |-> url, kwargs |-> kwargs]>>]
        /\ wire' = [wire EXCEPT ![c] =
              Some(session_request(self._session, method, url, FALSE, kwargs))]
        /\ sends' = [sends EXCEPT ![c] = @ + 1]
        /\ pc' = [pc EXCEPT ![c] = "in_transport"]
        /\ UNCHANGED <<clientVars, client, calls, attempts, resp, outcome>>

\* one of the ten named operations: raise_on_failure keeps its default
NamedOperation(c, operations, requests, bodies) ==
    \E op \in operations, project \in Projects, name \in Names,
       request \in requests :
      \E body \in IF op \in OperationsWithBody THEN bodies ELSE {Nothing} :
        _proxy_request_to_chief(c, op, project, name, OperationMethod(op),
                                OperationPath(op, project, name), request, body,
                                FALSE)

\* a call of _proxy_request_to_chief itself, raise_on_failure free
ProxyRequest(c, requests, bodies) ==
    \E request \in requests, body \in bodies, raise_on_failure \in BOOLEAN :
        _proxy_request_to_chief(c, "_proxy_request_to_chief", "", "", "GET",
                                <<"projects">>, request, body, raise_on_failure)

\* the transport: one connection attempt fails (refused, DNS, timeout).  The
\* adapter's Retry retries it while retries are left; after the last one
\* self._session.request raises, and with no handler in _send_request_to_api
\* or _proxy_request_to_chief the error reaches the caller
ConnectionFailure(c) ==
    /\ pc[c] = "in_transport"
    /\ attempts' = [attempts EXCEPT ![c] = @ + 1]
    /\ IF attempts[c] < wire[c].val.adapter.max_retries.total
       THEN UNCHANGED <<pc, outcome>>
       ELSE /\ pc' = [pc EXCEPT ![c] = "raised"]
            /\ outcome' = [outcome EXCEPT ![c] =
                  [kind |-> "raised",
                   error |-> [type |-> "ConnectionError", status_code |-> 0]]]
    /\ UNCHANGED <<clientVars, client, calls, call, wire, sends, resp, log>>

\* a mutant of ChiefResponds that sends the request again after a 5xx response
ChiefRespondsRetry(c, responses) ==
    /\ pc[c] = "in_transport"
    /\ \E response \in responses :
        LET r == send_request_on_response(call[c].method, call[c].path,
                     call[c].url, call[c].raise_on_failure, call[c].kwargs,
                     response)
        IN  /\ attempts' = [attempts EXCEPT ![c] = @ + 1]
            /\ resp' = [resp EXCEPT ![c] = Some(response)]
            /\ log' = [log EXCEPT ![c] = @ \o r.log]
            /\ IF response.status_code >= 500 /\ sends[c] < 2
               THEN /\ sends' = [sends EXCEPT ![c] = @ + 1]
                    /\ UNCHANGED <<pc, outcome>>
               ELSE /\ UNCHANGED sends
                    /\ outcome' = [outcome EXCEPT ![c] =
                          IF r.raised
                          THEN [kind |-> "raised", error |-> r.error]
                          ELSE [kind |-> "returned",
                                response |->
                                  _convert_requests_response_to_fastapi_response(
                                      r.response)]]
                    /\ pc' = [pc EXCEPT ![c] =
                          IF r.raised THEN "raised" ELSE "returned"]
    /\ UNCHANGED <<clientVars, client, calls, call, wire>>

\* the chief answers: self._session.request returns the response, the rest of
\* _send_request_to_api runs, and _proxy_request_to_chief translates what it
\* returns
ChiefResponds(c, responses) ==
    /\ pc[c] = "in_transport"
    /\ \E response \in responses :
        LET r == send_request_on_response(call[c].method, call[c].path,
                     call[c].url, call[c].raise_on_failure, call[c].kwargs,
                     response)
        IN  /\ attempts' = [attempts EXCEPT ![c] = @ + 1]
            /\ resp' = [resp EXCEPT ![c] = Some(response)]
            /\ log' = [log EXCEPT ![c] = @ \o r.log]
            /\ outcome' = [outcome EXCEPT ![c] =
                  IF r.raised
                  THEN [kind |-> "raised", error |-> r.error]
                  ELSE [kind |-> "returned",
                        response |->
                          _convert_requests_response_to_fastapi_response(
                              r.response)]]
            /\ pc' = [pc EXCEPT ![c] = IF r.raised THEN "raised" ELSE "returned"]
    /\ UNCHANGED <<clientVars, client, calls, call, wire, sends>>

\* the caller's handler ends; its next request starts from Client() again
Finish(c) ==
    /\ pc[c] \in {"returned", "raised"}
    /\ calls[c] < MaxCalls
    /\ pc' = [pc EXCEPT ![c] = "idle"]
    /\ client' = [client EXCEPT ![c] = 0]
    /\ call' = [call EXCEPT ![c] = NoCall]
    /\ wire' = [wire EXCEPT ![c] = Nothing]
    /\ sends' = [sends EXCEPT ![c] = 0]
    /\ attempts' = [attempts EXCEPT ![c] = 0]
    /\ resp' = [resp EXCEPT ![c] = Nothing]
    /\ outcome' = [outcome EXCEPT ![c] = NoOutcome]
    /\ log' = [log EXCEPT ![c] = <<>>]
    /\ UNCHANGED <<clientVars, calls>>

\* --------------------------------------------------------- the specifications
\* one caller, every operation and every kind of request and response
Next ==
    \/ SingletonEnter(1)
    \/ SingletonCall(1)
    \/ NamedOperation(1, NamedOperations, Requests, Bodies)
    \/ ProxyRequest(1, Requests, Bodies)
    \/ ConnectionFailure(1)
    \/ ChiefResponds(1, ChiefResponses)
    \/ Finish(1)

Spec == Init /\ [][Next]_vars

\* NumCallers callers at once, one forward each
InitConc == Init /\ cfgUrl \in ConcUrls

NextConc ==
    \E c \in Callers :
        \/ SingletonEnter(c)
        \/ SingletonCall(c)
        \/ NamedOperation(c, ConcOperations, Requests, ConcBodies)
        \/ ConnectionFailure(c)
        \/ ChiefResponds(c, ConcResponses)

SpecConc == InitConc /\ [][NextConc]_vars

\* ------------------------------------------------------------------ claims
\* a forward all of whose connection attempts failed, retries included
Exhausted(c) ==
    /\ wire[c].some
    /\ ~resp[c].some
    /\ attempts[c] > wire[c].val.adapter.max_retries.total

\* the content types a translated response declares
ContentTypes(response) ==
    {h[2] : h \in {x \in response.raw_headers : x[1] = "content-type"}}

\* C1: when the chief answers a forward with a status >= 400, the forward
\* returns, with raise_on_failure false, a response with exactly the chief's
\* status code and body, and with raise_on_failure true raises a domain error
\* and returns no response
C1_FailedResponseFollowsRaiseOnFailure ==
    \A c \in Callers :
        (resp[c].some /\ resp[c].val.status_code >= 400) =>
            IF call[c].raise_on_failure
            THEN /\ pc[c] = "raised"
                 /\ outcome[c].kind = "raised"
                 /\ outcome[c].error.type = "MLRunHTTPStatusError"
            ELSE /\ pc[c] = "returned"
                 /\ outcome[c].kind = "returned"
                 /\ outcome[c].response.status_code = resp[c].val.status_code
                 /\ outcome[c].response.body = resp[c].val.content

C1_Witness ==
    \E c \in Callers :
        /\ resp[c].some /\ resp[c].val.status_code = 500
        /\ call[c].raise_on_failure
        /\ outcome[c].kind = "raised"

GatewayStatuses == {502, 503, 504}

\* C2: a forward whose connection attempts all failed logs the failure and,
\* with raise_on_failure false, returns a synthetic failed response with a
\* gateway-style status; the caller sees no error of the proxy layer
C2_ExhaustedTransportReturnsGatewayResponse ==
    \A c \in Callers :
        (Exhausted(c) /\ ~call[c].raise_on_failure) =>
            /\ outcome[c].kind = "returned"
            /\ outcome[c].response.status_code \in GatewayStatuses
            /\ \E i \in 1..Len(log[c]) : log[c][i].level = "warning"

\* C3: the translated response has the chief's body bytes and status code,
\* keeps every header of the chief, and declares the content type
\* application/json even when the chief's headers declared another one
C3_TranslationForcesJsonContentType ==
    \A c \in Callers :
        outcome[c].kind = "returned" =>
            /\ outcome[c].response.body = resp[c].val.content
            /\ outcome[c].response.status_code = resp[c].val.status_code
            /\ \A h \in resp[c].val.headers :
                  h[1] # "Content-Type" =>
                      <<Lower(h[1]), h[2]>> \in outcome[c].response.raw_headers
            /\ ContentTypes(outcome[c].response) = {"application/json"}

\* the endpoint table of the specification: operation, method, path template
EndpointTable(op) ==
    CASE op = "get_internal_background_task" ->
            [method |-> "GET", template |-> <<"background-tasks", "/", "{name}">>]
      [] op = "trigger_migrations" ->
            [method |-> "POST", template |-> <<"operations", "/", "migrations">>]
      [] op = "create_schedule" ->
            [method |-> "POST",
             template |-> <<"projects", "/", "{project}", "/", "schedules">>]
      [] op = "update_schedule" ->
            [method |-> "PUT",
             template |-> <<"projects", "/", "{project}", "/", "schedules", "/",
                            "{name}">>]
      [] op = "delete_schedule" ->
            [method |-> "DELETE",
             template |-> <<"projects", "/", "{project}", "/", "schedules", "/",
                            "{name}">>]
      [] op = "delete_schedules" ->
            [method |-> "DELETE",
             template |-> <<"projects", "/", "{project}", "/", "schedules">>]
      [] op = "invoke_schedule" ->
            [method |-> "POST",
             template |-> <<"projects", "/", "{project}", "/", "schedules", "/",
                            "{name}", "/", "invoke">>]
      [] op = "submit_job" -> [method |-> "POST", template |-> <<"submit_job">>]
      [] op = "build_function" ->
            [method |-> "POST", template |-> <<"build", "/", "function">>]
      [] op = "delete_project" ->
            [method |-> "DELETE", template |-> <<"projects", "/", "{name}">>]

ResolvePath(template, project, name) ==
    [i \in 1..Len(template) |->
        IF template[i] = "{project}" THEN project
        ELSE IF template[i] = "{name}" THEN name
        ELSE template[i]]

\* the configured base url without its trailing slash
BaseURL == IF endswith_slash(cfgUrl) THEN SubSeq(cfgUrl, 1, Len(cfgUrl) - 1)
           ELSE cfgUrl

\* no "//" after the scheme token, which itself ends with "//"
NoDoubleSlash(url) ==
    /\ Len(url) >= 2
    /\ url[2] # "/"
    /\ \A i \in 2..(Len(url) - 1) : ~(url[i] = "/" /\ url[i + 1] = "/")

\* C4: each named operation sends the method and the path template of the
\* endpoint table, to the url {baseURL}/api/{version}/{resolved path}, which
\* has no double slash after the scheme whether or not the configured base
\* url ends with a slash
C4_NamedOperationUrl ==
    \A c \in Callers :
        (wire[c].some /\ call[c].op \in NamedOperations) =>
            /\ wire[c].val.method = EndpointTable(call[c].op).method
            /\ wire[c].val.url =
                  BaseURL \o <<"/", "api", "/">> \o api_base_version \o <<"/">>
                      \o ResolvePath(EndpointTable(call[c].op).template,
                                     call[c].project, call[c].name)
            /\ NoDoubleSlash(wire[c].val.url)

C4_Witness ==
    \E c \in Callers :
        /\ wire[c].some
        /\ call[c].op = "invoke_schedule"
        /\ endswith_slash(cfgUrl)

OwnSetting(c, field) ==
    IF call[c].request.some THEN call[c].request.val[field] ELSE {}

C9_UniformTransportSettings ==
    \A c \in Callers :
        wire[c].some =>
            wire[c].val.adapter =
                HTTPAdapter(RetryTotal, BackoffFactor, max_workers)

UndecodableContents == {EmptyContent, TextContent, ListContent}

\* C10: the decode of the chief's body for the log never changes what a
\* forward does: with a body that is empty, no JSON, or JSON that is no
\* object, the caller gets the chief's status and body back on both paths,
\* and the only error raised is the one raise_on_failure asks for
C10_DecodeNeverChangesOutcome ==
    \A c \in Callers :
        (resp[c].some /\ resp[c].val.content \in UndecodableContents) =>
            IF ~ok(resp[c].val) /\ call[c].raise_on_failure
            THEN /\ outcome[c].kind = "raised"
                 /\ outcome[c].error.type = "MLRunHTTPStatusError"
            ELSE /\ outcome[c].kind = "returned"
                 /\ outcome[c].response.status_code = resp[c].val.status_code
                 /\ outcome[c].response.body = resp[c].val.content

C10_Witness ==
    \E c \in Callers :
        /\ resp[c].some
        /\ resp[c].val.status_code = 500
        /\ resp[c].val.content = ListContent
        /\ outcome[c].kind = "returned"
        /\ outcome[c].response.body = ListContent

====
